---- MODULE Spec2Model ----
(***************************************************************************)
(* Build-queue controller of the bot (QueueController.onAiUpdate and the   *)
(* AntiGroundStaticDefence priority rule).  The controller keeps no state  *)
(* of its own: every tick it reads the production queues, the candidate    *)
(* lists, the credits and the threat snapshot through its arguments and    *)
(* issues requests to the external production system, which owns the       *)
(* queues.  Priorities are JavaScript numbers; they are kept here as exact *)
(* fractions [num, den] in lowest terms.                                   *)
(***************************************************************************)
EXTENDS Integers, Sequences, FiniteSets, TLC

VARIABLES
    queueData,      \* productionApi.getQueueData: queue -> [status, items]
    phase,          \* "idle": between ticks; "issued": a tick ran, requests are out
    available,      \* productionApi.getAvailableObjects of the tick
    owned,          \* game.getVisibleUnits(.., "self", r == option).length of the tick
    credits,        \* playerData.credits of the tick
    threatCache,    \* threatCache argument of the tick
    site,           \* what the placement search answers in the tick
    decisions,      \* onAiUpdate's local "decisions" (after the filter)
    totalWeightAcrossQueues,
    totalCostAcrossQueues,
    calls,          \* the updateBuildQueue calls made by the tick, in order
    issued,         \* the requests handed to actionsApi by the tick, in order
    unplaced,       \* history: the queues whose placement search found nothing in the last tick
    absent,         \* the queues for which getQueueData answers undefined in the tick
    previous        \* history: what the tick before saw and issued (kept where ticks are compared)

vars == <<queueData, phase, available, owned, credits, threatCache, site,
          decisions, totalWeightAcrossQueues, totalCostAcrossQueues, calls, issued,
          unplaced, absent, previous>>

----------------------------------------------------------------------------
(* Bounds of the model *)

\* largest number of queues the production system runs at the same time
MaxBusy == 1

----------------------------------------------------------------------------
(* Exact fractions *)

Abs(x) == IF x < 0 THEN -x ELSE x

Max(a, b) == IF a >= b THEN a ELSE b

RECURSIVE GCD(_, _)
GCD(a, b) == IF b = 0 THEN a ELSE GCD(b, a % b)

\* n / d for d > 0, in lowest terms
Frac(n, d) == LET g == GCD(Abs(n), d) IN [num |-> n \div g, den |-> d \div g]

Zero == Frac(0, 1)

FracAdd(x, y) == Frac(x.num * y.den + y.num * x.den, x.den * y.den)

FracMul(x, k) == Frac(x.num * k, x.den)

FracLT(x, y) == x.num * y.den < y.num * x.den

FracLE(x, y) == x.num * y.den <= y.num * x.den

----------------------------------------------------------------------------
(* The game's rules and the inputs of a tick *)

\* JavaScript's undefined (a missing decision, threat snapshot or location)
Undefined == [undefined |-> TRUE]

\* QueueType, in the order onAiUpdate walks the queues
Queues == <<"Structures", "Armory", "Infantry", "Vehicles", "Aircrafts", "Ships">>

QueueType == {Queues[i] : i \in 1..Len(Queues)}

\* QueueStatus
QueueStatus == {"Idle", "Active", "OnHold", "Ready"}

\* TechnoRules of the objects the player can produce: name -> rules
TechnoRules ==
    [n \in {"GAPOWR", "GAPILL", "GAWALL", "ATESLA", "NALASR", "NAWALL",
            "E1", "MTNK", "ORCA", "DEST"} |->
        CASE n = "GAPOWR" -> [name |-> n, type |-> "Building", cost |-> 500, queue |-> "Structures"]
          [] n = "GAPILL" -> [name |-> n, type |-> "Building", cost |-> 500, queue |-> "Armory"]
          [] n = "GAWALL" -> [name |-> n, type |-> "Building", cost |-> 500, queue |-> "Armory"]
          [] n = "ATESLA" -> [name |-> n, type |-> "Building", cost |-> 500, queue |-> "Armory"]
          [] n = "NALASR" -> [name |-> n, type |-> "Building", cost |-> 1000, queue |-> "Armory"]
          [] n = "NAWALL" -> [name |-> n, type |-> "Building", cost |-> 100, queue |-> "Armory"]
          [] n = "E1"     -> [name |-> n, type |-> "Infantry", cost |-> 500, queue |-> "Infantry"]
          [] n = "MTNK"   -> [name |-> n, type |-> "Vehicle",  cost |-> 500, queue |-> "Vehicles"]
          [] n = "ORCA"   -> [name |-> n, type |-> "Aircraft", cost |-> 500, queue |-> "Aircrafts"]
          [] n = "DEST"   -> [name |-> n, type |-> "Vehicle",  cost |-> 500, queue |-> "Ships"]]

Names == DOMAIN TechnoRules

\* queues whose finished object has to be placed on the map
PlacementQueues == {"Structures", "Armory"}

\* the unit queues that have a factory, as the base grows
OpenUnitQueues == {{}, {"Infantry", "Vehicles"}, {"Infantry", "Vehicles", "Aircrafts", "Ships"}}

\* what getAvailableObjects can answer in a tick: queue -> list (the order is the game's)
AvailableObjects ==
    {[q \in QueueType |->
        CASE q = "Structures" -> <<"GAPOWR">>
          [] q = "Armory"     -> armory
          [] OTHER            -> IF q \in open
                                 THEN <<CHOOSE n \in Names : TechnoRules[n].queue = q>>
                                 ELSE <<>>] :
        armory \in {<<>>, <<"GAPILL">>, <<"GAPILL", "GAWALL">>, <<"GAWALL", "GAPILL">>,
                    <<"GAWALL", "GAPILL", "ATESLA">>, <<"GAPILL", "ATESLA", "GAWALL">>},
        open \in OpenUnitQueues}

\* how many of each object the player owns in a tick
OwnedCounts ==
    {[n \in Names |-> IF n = b THEN 1 ELSE 0] : b \in {"none", "GAPILL", "GAWALL"}}

\* playerData.credits
CreditLevels == {1000, 3000}

\* GlobalThreat snapshots (or none)
ThreatCaches ==
    {Undefined,
     [totalOffensiveLandThreat |-> 120, totalAvailableAntiGroundFirepower |-> 0, totalDefensivePower |-> 1],
     [totalOffensiveLandThreat |-> 125, totalAvailableAntiGroundFirepower |-> 1, totalDefensivePower |-> 0]}

\* answers of the placement search
Locations == {Undefined, [rx |-> 10, ry |-> 20]}

\* the answers of the placement search in a tick: asked only for a finished object
Sites(qd) ==
    {s \in [PlacementQueues -> Locations] :
        \A q \in PlacementQueues :
            ~(qd[q].status = "Ready" /\ Len(qd[q].items) > 0) => s[q] = Undefined}

\* a base with the sentry gun and the wall on offer, to exercise the priority rules
ArmedAvailableObjects ==
    {[q \in QueueType |->
        CASE q = "Structures" -> <<"GAPOWR">>
          [] q = "Armory"     -> armory
          [] q = "Infantry"   -> <<"E1">>
          [] OTHER            -> <<>>] :
        armory \in {<<"NALASR">>, <<"GAWALL", "NAWALL", "NALASR", "GAPILL">>}}

\* how many of one object at a time the player owns there
ArmedOwnedCounts ==
    {[n \in Names |-> IF n = b THEN k ELSE 0] :
        b \in {"GAWALL", "GAPILL", "NALASR", "NAWALL"}, k \in {0, 1, 2, 3, 4, 49, 50, 51}}

\* the threat snapshots met there
ArmedThreatCaches ==
    {Undefined} \cup
    {[totalOffensiveLandThreat |-> t[1], totalAvailableAntiGroundFirepower |-> t[2],
      totalDefensivePower |-> t[3]] :
        t \in {<<200, 100, 50>>, <<180, 100, 50>>, <<187, 100, 50>>, <<188, 100, 50>>,
                <<1, 0, 0>>, <<0, 0, 0>>}}

----------------------------------------------------------------------------
(* Priorities *)

\* DEFAULT_BUILDING_PRIORITY of building.js
DEFAULT_BUILDING_PRIORITY == 50

\* BUILDING_NAME_TO_RULES of building.js: name -> AntiGroundStaticDefence(basePriority, baseAmount, groundStrength)
BUILDING_NAME_TO_RULES ==
    [n \in {"GAPILL", "NALASR", "NAWALL"} |->
        CASE n = "GAPILL" -> [basePriority |-> 5, baseAmount |-> 1, groundStrength |-> 5]
          [] n = "NALASR" -> [basePriority |-> 10, baseAmount |-> 3, groundStrength |-> 20]
          [] n = "NAWALL" -> [basePriority |-> 2, baseAmount |-> 2, groundStrength |-> 0]]

\* a slip: the threat is compared with the denominator itself, not with 1.1 times it
AntiGroundStaticDefence_getPriority_NoMargin(self, technoRules, numOwned, threat) ==
    IF threat # Undefined
    THEN LET denominator == threat.totalAvailableAntiGroundFirepower
                            + threat.totalDefensivePower + self.groundStrength
         IN  IF threat.totalOffensiveLandThreat > denominator
             THEN Frac(self.basePriority * threat.totalOffensiveLandThreat, Max(1, denominator))
             ELSE Zero
    ELSE Frac(self.basePriority * (self.baseAmount - numOwned) * self.groundStrength * 1000,
              self.baseAmount * technoRules.cost)

\* a slip: "(1.0 - numOwned) / baseAmount" for "1.0 - numOwned / baseAmount"
AntiGroundStaticDefence_getPriority_Precedence(self, technoRules, numOwned, threat) ==
    IF threat # Undefined
    THEN LET denominator == threat.totalAvailableAntiGroundFirepower
                            + threat.totalDefensivePower + self.groundStrength
         IN  IF 10 * threat.totalOffensiveLandThreat > 11 * denominator
             THEN Frac(self.basePriority * threat.totalOffensiveLandThreat, Max(1, denominator))
             ELSE Zero
    ELSE Frac(self.basePriority * (1 - numOwned) * self.groundStrength * 1000,
              self.baseAmount * technoRules.cost)

\* AntiGroundStaticDefence.getPriority
AntiGroundStaticDefence_getPriority(self, technoRules, numOwned, threat) ==
    IF threat # Undefined
    THEN LET denominator == threat.totalAvailableAntiGroundFirepower
                            + threat.totalDefensivePower + self.groundStrength
         IN  IF 10 * threat.totalOffensiveLandThreat > 11 * denominator
             THEN Frac(self.basePriority * threat.totalOffensiveLandThreat, Max(1, denominator))
             ELSE Zero
    ELSE Frac(self.basePriority * (self.baseAmount - numOwned) * self.groundStrength * 1000,
              self.baseAmount * technoRules.cost)

\* the objects of the given names that the player owns, all told
RECURSIVE OwnedOf(_, _)
OwnedOf(numOwned, names) ==
    IF names = {} THEN 0
    ELSE LET n == CHOOSE x \in names : TRUE IN numOwned[n] + OwnedOf(numOwned, names \ {n})

\* a slip: the fallback counts the player's objects of every type
getPriorityForBuildingOption_OfEveryType(option, numOwned, threat) ==
    IF option \in DOMAIN BUILDING_NAME_TO_RULES
    THEN AntiGroundStaticDefence_getPriority(BUILDING_NAME_TO_RULES[option],
                                             TechnoRules[option], numOwned[option], threat)
    ELSE Frac(DEFAULT_BUILDING_PRIORITY - OwnedOf(numOwned, DOMAIN numOwned), 1)

\* QueueController.getPriorityForBuildingOption
getPriorityForBuildingOption(option, numOwned, threat) ==
    IF option \in DOMAIN BUILDING_NAME_TO_RULES
    THEN AntiGroundStaticDefence_getPriority(BUILDING_NAME_TO_RULES[option],
                                             TechnoRules[option], numOwned[option], threat)
    ELSE Frac(DEFAULT_BUILDING_PRIORITY - numOwned[option], 1)

\* a slip: a sort that puts an option before the options of equal priority
RECURSIVE InsertSorted_BeforeEqual(_, _)
InsertSorted_BeforeEqual(sorted, x) ==
    IF sorted = <<>> THEN <<x>>
    ELSE LET last == sorted[Len(sorted)] IN
         IF FracLT(last.priority, x.priority)
         THEN Append(sorted, x)
         ELSE Append(InsertSorted_BeforeEqual(SubSeq(sorted, 1, Len(sorted) - 1), x), last)

\* Array.prototype.sort with (a, b) => a.priority - b.priority: stable, ascending
RECURSIVE InsertSorted(_, _)
InsertSorted(sorted, x) ==
    IF sorted = <<>> THEN <<x>>
    ELSE LET last == sorted[Len(sorted)] IN
         IF FracLE(last.priority, x.priority)
         THEN Append(sorted, x)
         ELSE Append(InsertSorted(SubSeq(sorted, 1, Len(sorted) - 1), x), last)

RECURSIVE SortByPriority(_)
SortByPriority(s) ==
    IF s = <<>> THEN <<>>
    ELSE InsertSorted(SortByPriority(SubSeq(s, 1, Len(s) - 1)), s[Len(s)])

\* a slip: "priority >= 0" for "priority > 0"
RECURSIVE PositiveOptions_OrZero(_, _, _)
PositiveOptions_OrZero(options, numOwned, threat) ==
    IF options = <<>> THEN <<>>
    ELSE LET option   == options[Len(options)]
             priority == getPriorityForBuildingOption(option, numOwned, threat)
             before   == PositiveOptions_OrZero(SubSeq(options, 1, Len(options) - 1), numOwned, threat)
         IN  IF FracLE(Zero, priority)
             THEN Append(before, [unit |-> option, priority |-> priority])
             ELSE before

\* the forEach of getBestOptionForBuilding: the options of positive priority, in order
RECURSIVE PositiveOptions(_, _, _)
PositiveOptions(options, numOwned, threat) ==
    IF options = <<>> THEN <<>>
    ELSE LET option   == options[Len(options)]
             priority == getPriorityForBuildingOption(option, numOwned, threat)
             before   == PositiveOptions(SubSeq(options, 1, Len(options) - 1), numOwned, threat)
         IN  IF FracLT(Zero, priority)
             THEN Append(before, [unit |-> option, priority |-> priority])
             ELSE before

\* QueueController.getBestOptionForBuilding
getBestOptionForBuilding(options, numOwned, threat) ==
    LET priorityQueue == SortByPriority(PositiveOptions(options, numOwned, threat))
    IN  IF priorityQueue = <<>> THEN Undefined ELSE priorityQueue[Len(priorityQueue)]

----------------------------------------------------------------------------
(* The tick *)

\* QueueController.getBestLocationForStructure
getBestLocationForStructure(objectReady, locations) ==
    IF objectReady \in DOMAIN BUILDING_NAME_TO_RULES
    THEN locations[TechnoRules[objectReady].queue]     \* logic.getPlacementLocation
    ELSE locations[TechnoRules[objectReady].queue]     \* getDefaultPlacementLocation

\* a slip: ">=" for ">" in the hysteresis test
HigherPriority_AtLeastTwice(newItemPriority, currentItemPriority) ==
    FracLE(FracMul(currentItemPriority, 2), newItemPriority)

\* "newItemPriority > currentItemPriority * 2"
HigherPriority_Any(newItemPriority, currentItemPriority) ==
    FracLE(currentItemPriority, newItemPriority)

HigherPriority(newItemPriority, currentItemPriority) ==
    FracLT(FracMul(currentItemPriority, 2), newItemPriority)

\* a slip: "<=" for "<" in the share test of the pause
WeightIsLow_AtMostQuarter(decision, totalWeight, totalCost, myCredits) ==
    /\ totalCost > myCredits
    /\ FracLE(FracMul(decision.priority, 4), totalWeight)

\* a slip: a half for a quarter in the share test of the pause
WeightIsLow_BelowHalf(decision, totalWeight, totalCost, myCredits) ==
    /\ totalCost > myCredits
    /\ FracLT(FracMul(decision.priority, 2), totalWeight)

\* "totalCostAcrossQueues > myCredits && decision.priority < totalWeightAcrossQueues * 0.25"
WeightIsLow(decision, totalWeight, totalCost, myCredits) ==
    /\ totalCost > myCredits
    /\ FracLT(FracMul(decision.priority, 4), totalWeight)

\* "myCredits >= totalCostAcrossQueues"
CreditsAreHigh_Strictly(totalCost, myCredits) == myCredits > totalCost

CreditsAreHigh(totalCost, myCredits) == myCredits >= totalCost

\* a slip: ">" for ">=" in the share test of the resume
WeightIsHigh_AboveQuarter(decision, totalWeight) ==
    /\ decision # Undefined
    /\ FracLT(totalWeight, FracMul(decision.priority, 4))

\* "decision && decision.priority >= totalWeightAcrossQueues * 0.25"
WeightIsHigh(decision, totalWeight) ==
    /\ decision # Undefined
    /\ FracLE(totalWeight, FracMul(decision.priority, 4))

\* a slip: the decided item is queued twice
StartDecision_Twice(queueType, decision) ==
    IF decision # Undefined
    THEN <<[op |-> "queueForProduction", queue |-> queueType, name |-> decision.unit,
            type |-> TechnoRules[decision.unit].type, count |-> 2]>>
    ELSE <<>>

\* a slip: the start is issued a second time
StartDecision_Again(queueType, decision) ==
    IF decision # Undefined
    THEN <<[op |-> "queueForProduction", queue |-> queueType, name |-> decision.unit,
            type |-> TechnoRules[decision.unit].type, count |-> 1],
           [op |-> "queueForProduction", queue |-> queueType, name |-> decision.unit,
            type |-> TechnoRules[decision.unit].type, count |-> 1]>>
    ELSE <<>>

\* the Idle branch of updateBuildQueue: "Start building the decided item."
StartDecision(queueType, decision) ==
    IF decision # Undefined
    THEN <<[op |-> "queueForProduction", queue |-> queueType, name |-> decision.unit,
            type |-> TechnoRules[decision.unit].type, count |-> 1]>>
    ELSE <<>>

\* the Ready branch of updateBuildQueue: "Consider placing it."
PlaceReady(queueType, objectReady, locations) ==
    IF queueType = "Structures" \/ queueType = "Armory"
    THEN LET location == getBestLocationForStructure(objectReady, locations) IN
         IF location # Undefined
         THEN <<[op |-> "placeBuilding", name |-> objectReady,
                 rx |-> location.rx, ry |-> location.ry]>>
         ELSE <<>>
    ELSE <<>>

\* a slip: "if" for "else if" before the share test of the resume
ConsiderResuming_NoElse(queueType, decision, totalWeight, totalCost, myCredits) ==
    (IF CreditsAreHigh(totalCost, myCredits)
     THEN <<[op |-> "resumeProduction", queue |-> queueType]>> ELSE <<>>)
    \o (IF WeightIsHigh(decision, totalWeight)
        THEN <<[op |-> "resumeProduction", queue |-> queueType]>> ELSE <<>>)

\* the OnHold branch of updateBuildQueue: "Consider resuming queue if priority
\* is high relative to other queues."
ConsiderResuming(queueType, decision, totalWeight, totalCost, myCredits) ==
    IF CreditsAreHigh(totalCost, myCredits)
    THEN <<[op |-> "resumeProduction", queue |-> queueType]>>
    ELSE IF WeightIsHigh(decision, totalWeight)
         THEN <<[op |-> "resumeProduction", queue |-> queueType]>>
         ELSE <<>>

\* QueueController.updateBuildQueue: the requests it hands to actionsApi
updateBuildQueue_UnlessOwned(qd, numOwned, myCredits, threat, locations, queueType, decision, totalWeight, totalCost) ==
    LET data == qd[queueType] IN
    IF data.status = "Idle"
    THEN IF decision # Undefined /\ numOwned[decision.unit] > 0
         THEN <<>>
         ELSE StartDecision(queueType, decision)
    ELSE IF data.status = "Ready" /\ Len(data.items) > 0
    THEN PlaceReady(queueType, data.items[1], locations)
    ELSE IF data.status = "Active" /\ Len(data.items) > 0 /\ decision # Undefined
    THEN LET current == data.items[1] IN
         IF decision.unit # current
         THEN LET currentItemPriority == getPriorityForBuildingOption(current, numOwned, threat)
                  newItemPriority     == decision.priority
              IN  IF HigherPriority(newItemPriority, currentItemPriority)
                  THEN <<[op |-> "unqueueFromProduction", queue |-> queueType, name |-> current,
                          type |-> TechnoRules[current].type, count |-> 1]>>
                  ELSE <<>>
         ELSE IF WeightIsLow(decision, totalWeight, totalCost, myCredits)
              THEN <<[op |-> "pauseProduction", queue |-> queueType]>>
              ELSE <<>>
    ELSE IF data.status = "OnHold"
    THEN ConsiderResuming(queueType, decision, totalWeight, totalCost, myCredits)
    ELSE <<>>

updateBuildQueue(qd, numOwned, myCredits, threat, locations, queueType, decision, totalWeight, totalCost) ==
    LET data == qd[queueType] IN
    IF data.status = "Idle"
    THEN StartDecision(queueType, decision)
    ELSE IF data.status = "Ready" /\ Len(data.items) > 0
    THEN PlaceReady(queueType, data.items[1], locations)
    ELSE IF data.status = "Active" /\ Len(data.items) > 0 /\ decision # Undefined
    THEN LET current == data.items[1] IN
         IF decision.unit # current
         THEN LET currentItemPriority == getPriorityForBuildingOption(current, numOwned, threat)
                  newItemPriority     == decision.priority
              IN  IF HigherPriority(newItemPriority, currentItemPriority)
                  THEN <<[op |-> "unqueueFromProduction", queue |-> queueType, name |-> current,
                          type |-> TechnoRules[current].type, count |-> 1]>>
                  ELSE <<>>
         ELSE IF WeightIsLow(decision, totalWeight, totalCost, myCredits)
              THEN <<[op |-> "pauseProduction", queue |-> queueType]>>
              ELSE <<>>
    ELSE IF data.status = "OnHold"
    THEN ConsiderResuming(queueType, decision, totalWeight, totalCost, myCredits)
    ELSE <<>>

\* "queues.map(...)": the best option of every queue, in the order of the queues
BestOptions(avail, numOwned, threat) ==
    [i \in 1..Len(Queues) |->
        [queue |-> Queues[i],
         decision |-> getBestOptionForBuilding(avail[Queues[i]], numOwned, threat)]]

\* ".filter((decision) => decision.decision != null)"
RECURSIVE FilterDecided(_)
FilterDecided(s) ==
    IF s = <<>> THEN <<>>
    ELSE LET before == FilterDecided(SubSeq(s, 1, Len(s) - 1)) IN
         IF s[Len(s)].decision # Undefined THEN Append(before, s[Len(s)]) ELSE before

\* ".map((decision) => decision.decision?.priority!).reduce((pV, cV) => pV + cV, 0)"
RECURSIVE TotalWeight(_)
TotalWeight(ds) ==
    IF ds = <<>> THEN Zero
    ELSE FracAdd(TotalWeight(SubSeq(ds, 1, Len(ds) - 1)), ds[Len(ds)].decision.priority)

\* ".map((decision) => decision.decision?.unit.cost!).reduce((pV, cV) => pV + cV, 0)"
RECURSIVE TotalCost(_)
TotalCost(ds) ==
    IF ds = <<>> THEN 0
    ELSE TotalCost(SubSeq(ds, 1, Len(ds) - 1)) + TechnoRules[ds[Len(ds)].decision.unit].cost

\* a slip: each call is handed the totals of the queues walked so far
ForEachCalls_RunningTotals(ds, totalWeight, totalCost) ==
    [i \in 1..Len(ds) |->
        [queueType |-> ds[i].queue, decision |-> ds[i].decision,
         totalWeightAcrossQueues |-> TotalWeight(SubSeq(ds, 1, i)),
         totalCostAcrossQueues |-> TotalCost(SubSeq(ds, 1, i))]]

\* "decisions.forEach": the calls of updateBuildQueue, in order
ForEachCalls(ds, totalWeight, totalCost) ==
    [i \in 1..Len(ds) |->
        [queueType |-> ds[i].queue, decision |-> ds[i].decision,
         totalWeightAcrossQueues |-> totalWeight, totalCostAcrossQueues |-> totalCost]]

\* productionApi.getQueueData as the tick sees it: no data for the queues of missing
getQueueData(qd, missing) ==
    [q \in QueueType |-> IF q \in missing THEN Undefined ELSE qd[q]]

\* "queueData.status" of an undefined queueData: updateBuildQueue throws a TypeError
Throws(qd, queueType) == qd[queueType] = Undefined

\* the calls forEach gets to make: an exception thrown by a call ends the forEach
RECURSIVE CallsMade(_, _)
CallsMade(cs, qd) ==
    IF cs = <<>> THEN <<>>
    ELSE IF Throws(qd, Head(cs).queueType) THEN <<Head(cs)>>
    ELSE <<Head(cs)>> \o CallsMade(Tail(cs), qd)

\* the requests of the calls, in order; a call that throws has issued none
RECURSIVE Requests(_, _, _, _, _, _)
Requests(cs, qd, numOwned, myCredits, threat, locations) ==
    IF cs = <<>> THEN <<>>
    ELSE Requests(SubSeq(cs, 1, Len(cs) - 1), qd, numOwned, myCredits, threat, locations)
         \o (IF Throws(qd, cs[Len(cs)].queueType) THEN <<>>
             ELSE updateBuildQueue(qd, numOwned, myCredits, threat, locations,
                                   cs[Len(cs)].queueType, cs[Len(cs)].decision,
                                   cs[Len(cs)].totalWeightAcrossQueues,
                                   cs[Len(cs)].totalCostAcrossQueues))

\* QueueController.onAiUpdate, on the snapshot the game hands it: the lists of
\* candidates among avails, the queue data of all queues but those of one of missing
Tick(avails, owns, creds, threats, missing) ==
    /\ phase = "idle"
    /\ available' \in avails
    /\ owned' \in owns
    /\ credits' \in creds
    /\ threatCache' \in threats
    /\ absent' \in missing
    /\ site' \in Sites(queueData)
    /\ decisions' = FilterDecided(BestOptions(available', owned', threatCache'))
    /\ totalWeightAcrossQueues' = TotalWeight(decisions')
    /\ totalCostAcrossQueues' = TotalCost(decisions')
    /\ calls' = CallsMade(ForEachCalls(decisions', totalWeightAcrossQueues', totalCostAcrossQueues'),
                          getQueueData(queueData, absent'))
    /\ issued' = Requests(calls', getQueueData(queueData, absent'),
                          owned', credits', threatCache', site')
    /\ unplaced' = {q \in PlacementQueues \ absent' :
                      /\ \E i \in 1..Len(calls') : calls'[i].queueType = q
                      /\ queueData[q].status = "Ready"
                      /\ Len(queueData[q].items) > 0
                      /\ getBestLocationForStructure(queueData[q].items[1], site') = Undefined}
    /\ phase' = "issued"
    /\ UNCHANGED queueData

\* a tick on a well-formed snapshot
OnAiUpdate ==
    /\ Tick(AvailableObjects, OwnedCounts, CreditLevels, ThreatCaches, {{}})
    /\ UNCHANGED previous

\* the queues a malformed snapshot may lack the data of: none, or one of them
MissingData == {{}} \cup {{q} : q \in QueueType}

\* a tick on a well-formed snapshot of a base with the sentry gun and the wall
OnAiUpdateArmed ==
    /\ Tick(ArmedAvailableObjects, ArmedOwnedCounts, {3000}, ArmedThreatCaches, {{}})
    /\ UNCHANGED previous

\* a tick on a snapshot that may lack the data of a queue
OnAiUpdateMalformed ==
    /\ Tick(AvailableObjects, OwnedCounts, CreditLevels, ThreatCaches, MissingData)
    /\ UNCHANGED previous

\* no tick before
NoLast == [ticked |-> FALSE]

\* the candidates of every queue as sets, and the score of every object
CandidateSets(avail) == [q \in QueueType |-> {avail[q][i] : i \in 1..Len(avail[q])}]

Scores(numOwned, threat) ==
    [n \in Names |-> getPriorityForBuildingOption(n, numOwned, threat)]

\* the start, cancel, pause and resume requests among rs, in order
RECURSIVE NonPlace(_)
NonPlace(rs) ==
    IF rs = <<>> THEN <<>>
    ELSE IF Head(rs).op = "placeBuilding" THEN NonPlace(Tail(rs))
    ELSE <<Head(rs)>> \o NonPlace(Tail(rs))

\* rs holds a request of the kind op to queue q
Asked(rs, op, q) == \E i \in 1..Len(rs) : rs[i].op = op /\ rs[i].queue = q

\* what is remembered of a tick: what it saw and issued, and, as long as the
\* candidates and the scores stay what they were, steady: which queues hold an
\* item started as the winner, and how many cancels each queue had applied
Remember(prev, qd, avail, numOwned, cred, threat, ds, rs) ==
    LET cands  == CandidateSets(avail)
        scores == Scores(numOwned, threat)
        steady == IF prev.ticked THEN prev.cands = cands /\ prev.scores = scores ELSE FALSE
    IN  [ticked    |-> TRUE,
         lists     |-> avail,
         cands     |-> cands,
         scores    |-> scores,
         credits   |-> cred,
         decisions |-> ds,
         queueData |-> qd,
         requests  |-> NonPlace(rs),
         asWinner  |-> [q \in QueueType |->
                          /\ steady
                          /\ qd[q].items # <<>>
                          /\ \/ prev.asWinner[q] /\ prev.queueData[q].items = qd[q].items
                             \/ /\ prev.queueData[q].status = "Idle"
                                /\ Asked(prev.requests, "queueForProduction", q)],
         cancels   |-> [q \in QueueType |->
                          IF ~steady THEN 0
                          ELSE IF /\ Asked(prev.requests, "unqueueFromProduction", q)
                                  /\ prev.queueData[q].items # qd[q].items
                               THEN prev.cancels[q] + 1
                               ELSE prev.cancels[q]]]

\* the snapshots of a base that changes little from tick to tick
SteadyAvailableObjects ==
    {[q \in QueueType |->
        CASE q = "Armory"   -> armory
          [] q = "Infantry" -> <<"E1">>
          [] OTHER          -> <<>>] :
        armory \in {<<"GAPILL", "GAWALL">>, <<"GAWALL", "GAPILL">>}}

SteadyOwnedCounts ==
    {[n \in Names |-> IF n = b THEN 1 ELSE 0] : b \in {"none", "GAPILL"}}

SteadyThreatCaches ==
    {Undefined,
     [totalOffensiveLandThreat |-> 200, totalAvailableAntiGroundFirepower |-> 1, totalDefensivePower |-> 0]}

\* a tick on such a snapshot
OnAiUpdateSteady ==
    /\ Tick(SteadyAvailableObjects, SteadyOwnedCounts, {500, 1000}, SteadyThreatCaches, {{}})
    /\ UNCHANGED previous

----------------------------------------------------------------------------
(* The external production system, which owns the queues *)

Busy(qd) == Cardinality({q \in QueueType : qd[q].status # "Idle"})

\* the queue without its first item; an emptied queue falls Idle
WithoutFront(data, status) ==
    LET rest == Tail(data.items) IN
    [status |-> IF rest = <<>> THEN "Idle" ELSE status, items |-> rest]

\* the effect of one accepted request; a request that does not fit the queue is dropped
Accept(qd, r) ==
    CASE r.op = "queueForProduction" ->
            IF qd[r.queue].status = "Idle" /\ Busy(qd) >= MaxBusy THEN qd
            ELSE [qd EXCEPT ![r.queue] =
                    [status |-> IF @.status = "Idle" THEN "Active" ELSE @.status,
                     items |-> Append(@.items, r.name)]]
      [] r.op = "unqueueFromProduction" ->
            IF qd[r.queue].items # <<>> /\ qd[r.queue].items[1] = r.name
            THEN [qd EXCEPT ![r.queue] = WithoutFront(@, @.status)]
            ELSE qd
      [] r.op = "pauseProduction" ->
            IF qd[r.queue].status = "Active"
            THEN [qd EXCEPT ![r.queue].status = "OnHold"] ELSE qd
      [] r.op = "resumeProduction" ->
            IF qd[r.queue].status = "OnHold"
            THEN [qd EXCEPT ![r.queue].status = "Active"] ELSE qd
      [] r.op = "placeBuilding" ->
            LET q == TechnoRules[r.name].queue IN
            IF qd[q].status = "Ready" /\ qd[q].items # <<>> /\ qd[q].items[1] = r.name
            THEN [qd EXCEPT ![q] = WithoutFront(@, "Active")]
            ELSE qd

\* the requests of rs the system accepts (those numbered in accepted), applied in order
RECURSIVE AcceptAll(_, _, _)
AcceptAll(qd, rs, accepted) ==
    IF rs = <<>> THEN qd
    ELSE LET before == AcceptAll(qd, SubSeq(rs, 1, Len(rs) - 1), accepted) IN
         IF Len(rs) \in accepted THEN Accept(before, rs[Len(rs)]) ELSE before

NoAvailable == [q \in QueueType |-> <<>>]
NoOwned == [n \in Names |-> 0]
NoSites == [q \in PlacementQueues |-> Undefined]

\* the tick is over: its locals are gone
TickOver ==
    /\ available' = NoAvailable
    /\ owned' = NoOwned
    /\ credits' = 0
    /\ threatCache' = Undefined
    /\ site' = NoSites
    /\ decisions' = <<>>
    /\ totalWeightAcrossQueues' = Zero
    /\ totalCostAcrossQueues' = 0
    /\ calls' = <<>>
    /\ issued' = <<>>
    /\ absent' = {}

\* the system accepts some of the tick's requests and ignores the others
Handled ==
    /\ phase = "issued"
    /\ \E accepted \in SUBSET (1..Len(issued)) :
          queueData' = AcceptAll(queueData, issued, accepted)
    /\ phase' = "idle"
    /\ TickOver
    /\ UNCHANGED unplaced

Dispatch ==
    /\ Handled
    /\ UNCHANGED previous

\* the tick as Remember keeps it
Now == Remember(previous, queueData, available, owned, credits, threatCache, decisions, issued)

\* the same, the tick remembered for the next one
DispatchRemembered ==
    /\ Handled
    /\ previous' = Now

\* production of the front item of a queue finishes
Finish ==
    /\ phase = "idle"
    /\ \E q \in QueueType :
        /\ queueData[q].status = "Active"
        /\ queueData[q].items # <<>>
        /\ queueData' = [queueData EXCEPT ![q].status = "Ready"]
    /\ UNCHANGED <<phase, available, owned, credits, threatCache, site, decisions,
                   totalWeightAcrossQueues, totalCostAcrossQueues, calls, issued, unplaced,
                   absent, previous>>

\* a finished unit leaves its factory
Leave ==
    /\ phase = "idle"
    /\ \E q \in QueueType \ PlacementQueues :
        /\ queueData[q].status = "Ready"
        /\ queueData[q].items # <<>>
        /\ queueData' = [queueData EXCEPT ![q] = WithoutFront(@, "Active")]
    /\ UNCHANGED <<phase, available, owned, credits, threatCache, site, decisions,
                   totalWeightAcrossQueues, totalCostAcrossQueues, calls, issued, unplaced,
                   absent, previous>>

----------------------------------------------------------------------------
(* Specification *)

Init ==
    /\ queueData = [q \in QueueType |-> [status |-> "Idle", items |-> <<>>]]
    /\ phase = "idle"
    /\ available = NoAvailable
    /\ owned = NoOwned
    /\ credits = 0
    /\ threatCache = Undefined
    /\ site = NoSites
    /\ decisions = <<>>
    /\ totalWeightAcrossQueues = Zero
    /\ totalCostAcrossQueues = 0
    /\ calls = <<>>
    /\ issued = <<>>
    /\ unplaced = {}
    /\ absent = {}
    /\ previous = NoLast

Next ==
    \/ OnAiUpdate
    \/ Dispatch
    \/ Finish
    \/ Leave

Spec == Init /\ [][Next]_vars

\* the same system when the snapshot of a tick may lack the data of a queue
NextMalformed ==
    \/ OnAiUpdateMalformed
    \/ Dispatch
    \/ Finish
    \/ Leave

SpecMalformed == Init /\ [][NextMalformed]_vars

\* the same system on a base with the sentry gun and the wall
NextArmed ==
    \/ OnAiUpdateArmed
    \/ Dispatch
    \/ Finish
    \/ Leave

SpecArmed == Init /\ [][NextArmed]_vars

\* the same system on a base that changes little, each tick remembered for the next
NextSteady ==
    \/ OnAiUpdateSteady
    \/ DispatchRemembered
    \/ Finish
    \/ Leave

SpecSteady == Init /\ [][NextSteady]_vars

----------------------------------------------------------------------------
(* Vocabulary of the properties: a tick has run and its requests are out *)

Ticked == phase = "issued"

Status(q) == queueData[q].status

HasFront(q) == queueData[q].items # <<>>

Front(q) == queueData[q].items[1]

\* the winner the tick selected for queue q, if any
Winner(q) ==
    IF \E i \in 1..Len(decisions) : decisions[i].queue = q
    THEN decisions[CHOOSE i \in 1..Len(decisions) : decisions[i].queue = q].decision
    ELSE Undefined

HasWinner(q) == Winner(q) # Undefined

\* the score of an object in the tick's snapshot
Score(n) == getPriorityForBuildingOption(n, owned, threatCache)

\* the queue a request acts on
RequestQueue(r) == IF r.op = "placeBuilding" THEN TechnoRules[r.name].queue ELSE r.queue

\* the positions in issued of the requests to queue q, and the requests themselves
RequestsTo(q) == {i \in 1..Len(issued) : RequestQueue(issued[i]) = q}

IssuedTo(q) == {issued[i] : i \in RequestsTo(q)}

Start(q, n) ==
    [op |-> "queueForProduction", queue |-> q, name |-> n, type |-> TechnoRules[n].type, count |-> 1]

Cancel(q, n) ==
    [op |-> "unqueueFromProduction", queue |-> q, name |-> n, type |-> TechnoRules[n].type, count |-> 1]

Pause(q) == [op |-> "pauseProduction", queue |-> q]

Resume(q) == [op |-> "resumeProduction", queue |-> q]

Place(n, l) == [op |-> "placeBuilding", name |-> n, rx |-> l.rx, ry |-> l.ry]

\* winner.score >= 0.25 * totalWeight, and its negation
QuarterShare(q) ==
    4 * Winner(q).priority.num * totalWeightAcrossQueues.den
        >= totalWeightAcrossQueues.num * Winner(q).priority.den

----------------------------------------------------------------------------
(* C1 and C2: queues without a winner *)

\* C1: in a tick with credits >= totalCost, every OnHold queue is sent a
\* resume, whether or not it has a winner.
C1_AffordableResume ==
    Ticked =>
        \A q \in QueueType :
            (Status(q) = "OnHold" /\ credits >= totalCostAcrossQueues)
                => Resume(q) \in IssuedTo(q)

\* C2: in a tick where a placement queue is Ready with a front item and a
\* location is found for it, the front item is placed there, whether or not
\* the queue has a winner.
C2_CommitWithoutWinner ==
    Ticked =>
        \A q \in PlacementQueues :
            (Status(q) = "Ready" /\ HasFront(q) /\ site[q] # Undefined)
                => Place(Front(q), site[q]) \in IssuedTo(q)

----------------------------------------------------------------------------
(* C3 to C5: an Active or OnHold queue with a winner *)

\* an Active queue whose front item is not the tick's winner
Reconsidering(q) ==
    /\ Status(q) = "Active" /\ HasFront(q)
    /\ HasWinner(q) /\ Winner(q).unit # Front(q)

\* C3: for an Active queue whose front item A differs from the winner B, the
\* front item is cancelled (dequeue of A, count 1) exactly when
\* score(B) > 2 * score(A), score(A) taken afresh in the tick, whatever the
\* credits and the totals are.
C3_Hysteresis ==
    Ticked =>
        \A q \in QueueType :
            Reconsidering(q) =>
                /\ Cancel(q, Front(q)) \in IssuedTo(q)
                     <=> Winner(q).priority.num * Score(Front(q)).den
                            > 2 * Score(Front(q)).num * Winner(q).priority.den
                /\ IssuedTo(q) \subseteq {Cancel(q, Front(q))}

\* a front item is cancelled for a winner of more than twice its score
C3_Witness ==
    /\ Ticked
    /\ \E q \in QueueType : Reconsidering(q) /\ Cancel(q, Front(q)) \in IssuedTo(q)

\* C4: a queue is paused in a tick exactly when it is Active, its front item
\* is the tick's winner, totalCost > credits and
\* winner.score < 0.25 * totalWeight.
C4_Pause ==
    Ticked =>
        \A q \in QueueType :
            Pause(q) \in IssuedTo(q)
                <=> /\ Status(q) = "Active" /\ HasFront(q)
                    /\ HasWinner(q) /\ Winner(q).unit = Front(q)
                    /\ totalCostAcrossQueues > credits
                    /\ ~QuarterShare(q)

\* a queue building its winner is paused
C4_Witness ==
    /\ Ticked
    /\ \E q \in QueueType : Pause(q) \in IssuedTo(q)

\* C5: for an OnHold queue in a tick with credits < totalCost, a resume is
\* issued exactly when the queue has a winner with
\* winner.score >= 0.25 * totalWeight; otherwise nothing is issued to the
\* queue and it is still OnHold when the requests have been handled.
C5_ShareResume ==
    [][Ticked =>
        \A q \in QueueType :
            (Status(q) = "OnHold" /\ credits < totalCostAcrossQueues) =>
                IF HasWinner(q) /\ QuarterShare(q)
                THEN Resume(q) \in IssuedTo(q)
                ELSE IssuedTo(q) = {} /\ queueData'[q].status = "OnHold"]_vars

\* with credits short, a queue on hold is resumed for its share
C5_Witness ==
    /\ Ticked
    /\ \E q \in QueueType :
        /\ Status(q) = "OnHold" /\ credits < totalCostAcrossQueues
        /\ Resume(q) \in IssuedTo(q)

----------------------------------------------------------------------------
(* C6: the totals of a tick *)

\* the winner the selector finds for queue q in the tick's snapshot
Best(q) == getBestOptionForBuilding(available[q], owned, threatCache)

\* the sum of the scores of the winners of the first k queues
RECURSIVE SumOfScores(_)
SumOfScores(k) ==
    IF k = 0 THEN [num |-> 0, den |-> 1]
    ELSE LET w == Best(Queues[k])
             r == SumOfScores(k - 1)
         IN  IF w = Undefined THEN r
             ELSE Frac(r.num * w.priority.den + w.priority.num * r.den, r.den * w.priority.den)

\* the sum of the costs of the winners of the first k queues
RECURSIVE SumOfCosts(_)
SumOfCosts(k) ==
    IF k = 0 THEN 0
    ELSE LET w == Best(Queues[k]) IN
         SumOfCosts(k - 1) + (IF w = Undefined THEN 0 ELSE TechnoRules[w.unit].cost)

\* C6: every call of the queue step in a tick is handed the same totalWeight
\* and totalCost: the sums of the scores and of the costs of the winners of
\* that tick over all six queues, already complete at the first call.
C6_Totals ==
    Ticked =>
        /\ \A i \in 1..Len(calls) :
            /\ calls[i].totalWeightAcrossQueues = calls[1].totalWeightAcrossQueues
            /\ calls[i].totalCostAcrossQueues = calls[1].totalCostAcrossQueues
            /\ calls[i].decision = Winner(calls[i].queueType)
        /\ calls # <<>> =>
            /\ calls[1].totalWeightAcrossQueues = SumOfScores(Len(Queues))
            /\ calls[1].totalCostAcrossQueues = SumOfCosts(Len(Queues))

\* all six queues have a winner, of different scores, and requests are issued
C6_Witness ==
    /\ Ticked
    /\ Len(calls) = 6
    /\ issued # <<>>
    /\ \E i, j \in 1..Len(calls) : calls[i].decision.priority # calls[j].decision.priority

----------------------------------------------------------------------------
(* C7 and C8: the selector *)

Candidates(q) == {available[q][i] : i \in 1..Len(available[q])}

Positive(n) == Score(n).num > 0

\* score(a) <= score(b)
NoBetter(a, b) == Score(a).num * Score(b).den <= Score(b).num * Score(a).den

\* C7: the selector returns none exactly when no candidate of the queue has
\* a positive score; otherwise it returns a candidate of the queue, with its
\* score, which is positive and the largest of the queue; one per queue.
C7_Selector ==
    Ticked =>
        /\ \A q \in QueueType :
            IF \A n \in Candidates(q) : ~Positive(n)
            THEN ~HasWinner(q)
            ELSE /\ HasWinner(q)
                 /\ Winner(q).unit \in Candidates(q)
                 /\ Winner(q).priority = Score(Winner(q).unit)
                 /\ Positive(Winner(q).unit)
                 /\ \A n \in Candidates(q) : NoBetter(n, Winner(q).unit)
        /\ \A i, j \in 1..Len(decisions) : decisions[i].queue = decisions[j].queue => i = j

\* of three candidates of positive score the second listed is the best and wins
C7_Witness ==
    /\ Ticked
    /\ \E q \in QueueType :
        /\ Len(available[q]) = 3
        /\ \A n \in Candidates(q) : Positive(n)
        /\ ~NoBetter(available[q][2], available[q][1])
        /\ ~NoBetter(available[q][2], available[q][3])
        /\ Winner(q).unit = available[q][2]

\* C8: of the candidates that share the largest positive score, the selector
\* returns the one listed last.
C8_LastListedWins ==
    Ticked =>
        \A q \in QueueType :
            HasWinner(q) =>
                \A i \in 1..Len(available[q]) :
                    (available[q][i] = Winner(q).unit) =>
                        \A j \in (i + 1)..Len(available[q]) :
                            ~NoBetter(Winner(q).unit, available[q][j])

\* three candidates tie and the last listed wins
C8_Witness ==
    /\ Ticked
    /\ \E q \in QueueType :
        /\ Len(available[q]) = 3
        /\ Positive(available[q][1])
        /\ Score(available[q][1]) = Score(available[q][2])
        /\ Score(available[q][2]) = Score(available[q][3])
        /\ Winner(q).unit = available[q][3]

----------------------------------------------------------------------------
(* C9 and C10: Idle and Ready queues *)

\* C9: for an Idle queue, with a winner exactly one request is issued, the
\* start of the winner's item with count 1; without a winner nothing is
\* issued and the queue is still Idle when the requests have been handled.
C9_Idle ==
    [][Ticked =>
        \A q \in QueueType :
            Status(q) = "Idle" =>
                IF HasWinner(q)
                THEN /\ Cardinality(RequestsTo(q)) = 1
                     /\ IssuedTo(q) = {Start(q, Winner(q).unit)}
                     /\ TechnoRules[Winner(q).unit].queue = q
                ELSE RequestsTo(q) = {} /\ queueData'[q].status = "Idle"]_vars

\* an Idle queue with a winner, and an Idle queue without
C9_Witness ==
    /\ Ticked
    /\ \E q \in QueueType : Status(q) = "Idle" /\ HasWinner(q) /\ IssuedTo(q) # {}
    /\ \E q \in QueueType : Status(q) = "Idle" /\ ~HasWinner(q)

\* the Ready rule within a tick: a Ready queue is sent nothing but the
\* placement of its front item, and that only if it is a placement queue for
\* whose front item a location is found
ReadyFrame ==
    Ticked =>
        \A q \in QueueType :
            Status(q) = "Ready" =>
                IF q \in PlacementQueues /\ HasFront(q) /\ site[q] # Undefined
                THEN IssuedTo(q) \subseteq {Place(Front(q), site[q])}
                ELSE IssuedTo(q) = {}

\* a queue whose placement search found nothing in the last tick and that is
\* still Ready is stepped again, so that the search is made again, in this tick
ReadyRetry ==
    (phase = "idle" /\ phase' = "issued") =>
        \A q \in unplaced :
            (Status(q) = "Ready" /\ HasFront(q))
                => \E i \in 1..Len(calls') : calls'[i].queueType = q

\* C10: a Ready queue is sent nothing but the placement of its front item, and
\* that only for Structures or Armory when a location is found; a Ready queue
\* of units and a Ready placement queue without a location are sent nothing,
\* and the placement is attempted again on the next tick while the queue
\* stays Ready.
C10_ReadyRule == []ReadyFrame /\ [][ReadyRetry]_vars

----------------------------------------------------------------------------
(* C11: a queue whose data is missing from the snapshot *)

\* what the step of queue q issues on the tick's snapshot when it runs
StepOf(q) ==
    LET rs == updateBuildQueue(queueData, owned, credits, threatCache, site, q, Winner(q),
                               totalWeightAcrossQueues, totalCostAcrossQueues)
    IN  {rs[i] : i \in 1..Len(rs)}

\* C11: when the step of one queue fails in a tick (its data is missing from
\* the snapshot), the step of every other queue that has a winner still
\* runs and issues what it issues on a well-formed snapshot.
C11_Isolation ==
    Ticked =>
        \A q \in QueueType \ absent :
            HasWinner(q) => IssuedTo(q) = StepOf(q)

----------------------------------------------------------------------------
(* C12: pausing and the quarter share *)

\* an Active queue whose front item is the tick's winner
Producing(q) ==
    /\ Status(q) = "Active" /\ HasFront(q)
    /\ HasWinner(q) /\ Winner(q).unit = Front(q)

\* a queue whose winner has at least a quarter of the total weight
Entitled(q) == HasWinner(q) /\ QuarterShare(q)

\* the queue is not paused, and is resumed if it is on hold
KeepsProducing(q) ==
    /\ Pause(q) \notin IssuedTo(q)
    /\ (Status(q) = "OnHold" => Resume(q) \in IssuedTo(q))

\* C12 as claimed: in a tick with totalCost > credits and a queue that is Active
\* on its winner, not every such queue is paused, and some queue with a winner
\* has winner.score >= 0.25 * totalWeight and keeps producing, for one to six
\* queues with winners.
C12_NoStarvation ==
    (Ticked /\ totalCostAcrossQueues > credits /\ \E q \in QueueType : Producing(q)) =>
            /\ \E q \in QueueType : Producing(q) /\ Pause(q) \notin IssuedTo(q)
            /\ \E q \in QueueType : Entitled(q) /\ KeepsProducing(q)

\* C12 as amended: in a tick with totalCost > credits and one to four queues
\* with winners, some queue with a winner has winner.score >= 0.25 *
\* totalWeight, and every such queue keeps producing: it is not paused, and it
\* is resumed if it is OnHold.
C12_QuarterShare ==
    (Ticked /\ totalCostAcrossQueues > credits /\ Len(decisions) \in 1..4) =>
            /\ \E q \in QueueType : Entitled(q)
            /\ \A q \in QueueType : Entitled(q) => KeepsProducing(q)

\* credits are short, four queues have winners, and one that is Active on its
\* winner holds exactly a quarter and is left alone
C12_Witness ==
    /\ Ticked
    /\ totalCostAcrossQueues > credits
    /\ Len(decisions) = 4
    /\ \E q \in QueueType :
        /\ Producing(q) /\ Entitled(q) /\ IssuedTo(q) = {}
        /\ FracMul(Winner(q).priority, 4) = totalWeightAcrossQueues

----------------------------------------------------------------------------
(* C18 and C20: the requests of a tick, queue by queue *)

\* the status in which the step of a queue issues a request of the kind op
StatusOf(op) ==
    CASE op = "queueForProduction"    -> "Idle"
      [] op = "placeBuilding"         -> "Ready"
      [] op = "unqueueFromProduction" -> "Active"
      [] op = "pauseProduction"       -> "Active"
      [] op = "resumeProduction"      -> "OnHold"

\* C18: a tick issues at most one request per queue, hence at most six, and
\* the kind of the request goes with the status of the queue: start only
\* when Idle, place only when Ready, cancel or pause only when Active,
\* resume only when OnHold.
C18_OneActionPerQueue ==
    Ticked =>
        /\ \A q \in QueueType : Cardinality(RequestsTo(q)) <= 1
        /\ Len(issued) <= Len(Queues)
        /\ \A i \in 1..Len(issued) : Status(RequestQueue(issued[i])) = StatusOf(issued[i].op)

\* six requests in one tick, one of them to a queue that is not Idle
C18_Witness ==
    /\ Ticked
    /\ Len(issued) = Len(Queues)
    /\ \E i \in 1..Len(issued) : issued[i].op # "queueForProduction"

\* C20: a start is issued only to a queue that is Idle in the tick, with
\* count 1, and with the requests handled before the next tick no queue ever
\* holds more than one item.
C20_OneItem ==
    /\ \A i \in 1..Len(issued) :
          issued[i].op = "queueForProduction" =>
              /\ Status(issued[i].queue) = "Idle"
              /\ issued[i].count = 1
    /\ \A q \in QueueType : Len(queueData[q].items) <= 1

\* a queue holding its one item has a winner and is not sent a start, while an
\* Idle queue is
C20_Witness ==
    /\ Ticked
    /\ \E q \in QueueType :
        /\ Len(queueData[q].items) = 1 /\ HasWinner(q)
        /\ \A r \in IssuedTo(q) : r.op # "queueForProduction"
    /\ \E q \in QueueType :
        Status(q) = "Idle" /\ HasWinner(q) /\ Start(q, Winner(q).unit) \in IssuedTo(q)

----------------------------------------------------------------------------
(* C15 to C17: the priority rules *)

\* the objects with a registered strategy, and the others
Registered == DOMAIN BUILDING_NAME_TO_RULES

\* the score of object n in the tick's snapshot were k of it owned
ScoreWith(n, k) == getPriorityForBuildingOption(n, [owned EXCEPT ![n] = k], threatCache)

\* the owned counts looked at: up to and beyond the default priority
OwnedLevels == 0..(DEFAULT_BUILDING_PRIORITY + 2)

\* object n is not the winner of any queue and is not started in the tick
NeverChosen(n) ==
    /\ \A i \in 1..Len(decisions) : decisions[i].decision.unit # n
    /\ \A i \in 1..Len(issued) :
          issued[i].op = "queueForProduction" => issued[i].name # n

\* C15: with a threat snapshot and denominator = firepower + defensive power +
\* the structure's strength, the score of a defensive structure is
\* basePriority * threat / max(1, denominator) when threat > 1.1 * denominator
\* and 0 otherwise; for 100, 50, 20 it is basePriority * 200 / 170 at threat
\* 200 and 0 at threat 180.
C15_ThreatScore ==
    (Ticked /\ threatCache # Undefined) =>
        \A n \in Registered :
            LET self        == BUILDING_NAME_TO_RULES[n]
                enemy       == threatCache.totalOffensiveLandThreat
                denominator == threatCache.totalAvailableAntiGroundFirepower
                               + threatCache.totalDefensivePower + self.groundStrength
            IN  /\ 10 * enemy > 11 * denominator =>
                      Score(n).num * Max(1, denominator) = self.basePriority * enemy * Score(n).den
                /\ 10 * enemy <= 11 * denominator => Score(n).num = 0
                /\ (denominator = 170 /\ enemy = 200) =>
                      Score(n).num * 170 = self.basePriority * 200 * Score(n).den
                /\ (denominator = 170 /\ enemy = 180) => Score(n).num = 0

\* firepower 100, defensive power 50, strength 20, threat 200: the sentry gun
\* scores 10 * 200 / 170 and wins its queue
C15_Witness ==
    /\ Ticked
    /\ threatCache # Undefined
    /\ threatCache.totalOffensiveLandThreat = 200
    /\ threatCache.totalAvailableAntiGroundFirepower = 100
    /\ threatCache.totalDefensivePower = 50
    /\ HasWinner("Armory")
    /\ Winner("Armory").unit = "NALASR"
    /\ Winner("Armory").priority = [num |-> 200, den |-> 17]

\* C16: the priority of an object without a registered strategy is the
\* default priority minus the number owned of that object: 47 for 50 and 3
\* owned; it strictly decreases as that number grows and is <= 0 from 50
\* owned on, where the selector never returns the object.
C16_Fallback ==
    Ticked =>
        \A n \in Names \ Registered :
            /\ Score(n).den = 1
            /\ Score(n).num + owned[n] = DEFAULT_BUILDING_PRIORITY
            /\ (DEFAULT_BUILDING_PRIORITY = 50 /\ owned[n] = 3) => Score(n).num = 47
            /\ \A k \in OwnedLevels : k > owned[n] => FracLT(ScoreWith(n, k), Score(n))
            /\ owned[n] >= DEFAULT_BUILDING_PRIORITY =>
                  Score(n).num <= 0 /\ NeverChosen(n)

\* 50 walls are owned; the wall is on offer, scores 0 and is not selected
C16_Witness ==
    /\ Ticked
    /\ owned["GAWALL"] = DEFAULT_BUILDING_PRIORITY
    /\ "GAWALL" \in Candidates("Armory")
    /\ Score("GAWALL") = Zero
    /\ NeverChosen("GAWALL")

\* C17: without a threat snapshot, for positive basePriority, target count,
\* strength and cost, the score of a defensive structure does not increase
\* with the number owned, is > 0 exactly when fewer than the target count
\* are owned and <= 0 from the target count on, where the structure is never
\* returned by the selector and never started.
C17_SelfLimiting ==
    (Ticked /\ threatCache = Undefined) =>
        \A n \in Registered :
            LET self == BUILDING_NAME_TO_RULES[n] IN
            (self.basePriority > 0 /\ self.baseAmount > 0
                /\ self.groundStrength > 0 /\ TechnoRules[n].cost > 0) =>
                    /\ Score(n).num > 0 <=> owned[n] < self.baseAmount
                    /\ \A k \in OwnedLevels : k > owned[n] => FracLE(ScoreWith(n, k), Score(n))
                    /\ owned[n] >= self.baseAmount => NeverChosen(n)

\* no threat snapshot, three sentry guns owned of a target of three: the
\* sentry gun is the only candidate of its queue and is not started
C17_Witness ==
    /\ Ticked
    /\ threatCache = Undefined
    /\ owned["NALASR"] = BUILDING_NAME_TO_RULES["NALASR"].baseAmount
    /\ available["Armory"] = <<"NALASR">>
    /\ Status("Armory") = "Idle"
    /\ ~HasWinner("Armory")
    /\ IssuedTo("Armory") = {}

----------------------------------------------------------------------------
(* Two ticks in a row: previous is the tick before, Now the tick just made *)

WinnerIn(ds, q) ==
    IF \E i \in 1..Len(ds) : ds[i].queue = q
    THEN ds[CHOOSE i \in 1..Len(ds) : ds[i].queue = q].decision
    ELSE Undefined

RequestSet(rs) == {rs[i] : i \in 1..Len(rs)}

Everything(rs) == 1..Len(rs)

\* the pause and the resume condition of queue q as this tick evaluates them
PauseCondition(q) ==
    WeightIsLow(Winner(q), totalWeightAcrossQueues, totalCostAcrossQueues, credits)

ResumeCondition(q) ==
    \/ CreditsAreHigh(totalCostAcrossQueues, credits)
    \/ WeightIsHigh(Winner(q), totalWeightAcrossQueues)

\* credits, total cost, total weight and the score of q's winner are what they
\* were in the tick before
SameBudget(q) ==
    /\ previous.ticked
    /\ previous.credits = credits
    /\ TotalCost(previous.decisions) = totalCostAcrossQueues
    /\ TotalWeight(previous.decisions) = totalWeightAcrossQueues
    /\ WinnerIn(previous.decisions, q) # Undefined
    /\ WinnerIn(previous.decisions, q).priority = Winner(q).priority

\* C19: for a queue with a winner the pause condition holds exactly when the
\* resume condition does not, so with credits, totals and the winner's score
\* unchanged a queue paused in one tick is not resumed in the next, and a queue
\* resumed in one tick is not paused in the next.
C19_Complements ==
    Ticked =>
        \A q \in QueueType :
            HasWinner(q) =>
                /\ PauseCondition(q) <=> ~ResumeCondition(q)
                /\ SameBudget(q) =>
                      /\ ~(/\ Asked(previous.requests, "pauseProduction", q)
                           /\ Asked(issued, "resumeProduction", q))
                      /\ ~(/\ Asked(previous.requests, "resumeProduction", q)
                           /\ Asked(issued, "pauseProduction", q))

\* a queue paused in the tick before is on hold, looked at again under the
\* same budget, and left on hold
C19_Witness ==
    /\ Ticked
    /\ \E q \in QueueType :
          /\ HasWinner(q)
          /\ SameBudget(q)
          /\ Asked(previous.requests, "pauseProduction", q)
          /\ queueData[q].status = "OnHold"
          /\ ~Asked(issued, "resumeProduction", q)

SameAsSets ==
    /\ previous.ticked
    /\ previous.queueData = queueData
    /\ previous.credits = credits
    /\ previous.cands = Now.cands
    /\ previous.scores = Now.scores

\* the start, cancel, pause and resume requests are those of the tick before,
\* and applying them now gives what applying them then would have given
SameRequests ==
    /\ RequestSet(NonPlace(issued)) = RequestSet(previous.requests)
    /\ AcceptAll(queueData, NonPlace(issued), Everything(NonPlace(issued)))
         = AcceptAll(previous.queueData, previous.requests, Everything(previous.requests))

\* C14 as stated: a tick that finds statuses, front items, candidate sets, scores
\* and credits as the tick before found them issues the same start, cancel,
\* pause and resume requests.
C14_SameSets == (Ticked /\ SameAsSets) => SameRequests

\* C14 amended: the same, when every queue's candidates are also enumerated in
\* the same order as in the tick before.
C14_SameLists == (Ticked /\ SameAsSets /\ previous.lists = available) => SameRequests

\* the requests of the tick before were ignored, the snapshot is the same and
\* the tick issues them again
C14_Witness ==
    /\ Ticked
    /\ SameAsSets
    /\ previous.lists = available
    /\ previous.requests # <<>>
    /\ NonPlace(issued) = previous.requests

====
